---- MODULE Spec2Model ----
(***************************************************************************)
(* Model of the chat server: the MongoDB-backed chat message history       *)
(* (src/llm/chat_history.py), the way a conversation turn obtains and      *)
(* writes its history (src/llm/model.py) and the streaming endpoint with   *)
(* its module-level token queue (src/main.py).                             *)
(*                                                                         *)
(* Spec        the history store driven directly through its methods       *)
(* SpecStream  conversation turns of generate_response                     *)
(***************************************************************************)
EXTENDS Integers, Sequences, FiniteSets, TLC

(***************************************************************************)
(* Bounds of the model.                                                    *)
(***************************************************************************)
\* add_message calls made in one behaviour of Spec
MaxMessages == 3
\* fragments the model emits in one behaviour of SpecStream, all turns together
MaxTokens == 2

\* the largest count asked of get_recent_messages
MaxCount == 4

\* entries the vector index holds in one behaviour of SpecRag
MaxIndexed == 3
\* the largest k asked of a search
MaxK == 2

\* ObjectIds MongoDB generates in one behaviour of SpecDb
MaxOids == 3

\* session identifiers
Sessions == {"s1", "s2"}
\* MongoDBChatMessageHistory instances created by direct callers
Handles == {"h1", "h2"}
\* conversation turns (calls of generate_response); each turn's
\* RunnableWithMessageHistory creates its own history instance, named after it
Turns == {"t1", "t2"}
Instances == Handles \cup Turns

NoSession == "none"

\* the input texts of requests: the empty text and a question
Inputs == {"", "q"}
NoInput == "none"

VARIABLES
    \* ---- the MongoDB collection and the history instances
    collection,   \* set of documents [session_id, message_index, data]
    session_id,   \* instance -> its session_id (NoSession: not constructed)
    messages,     \* instance -> the _messages cache, a sequence of messages
    pc,           \* instance -> position: "none", "idle", "add_message", "clear"
    arg,          \* instance -> the message of its last add_message call (0: none)
    result,       \* instance -> how its last call ended: [op, outcome]
    \* ---- history (ghost) variables the properties are stated with
    nextId,       \* messages created so far; a message is identified by its number
    appendLog,    \* session -> messages inserted since the last clear, in insertion order
    written,      \* messages whose insert_one has succeeded at some time
    before        \* instance -> the cache at the entry of its last add_message or clear

histVars == <<collection, session_id, messages, pc, arg, result,
              nextId, appendLog, written, before>>

VARIABLES
    \* ---- the streaming endpoint
    queue,        \* the module-level asyncio.Queue shared by all turns
    gen,          \* turn -> position of generate_response
    task,         \* turn -> position of its run_model task
    yielded,      \* turn -> the events generate_response has yielded to its client
    put,          \* turn -> (ghost) the items its task has put on the queue
    input_text    \* turn -> the input text of its request (NoInput: not started)

streamVars == <<queue, gen, task, yielded, put, input_text>>

VARIABLES
    \* ---- retrieval (src/rag/rag_system.py, src/llm/rag_integration.py)
    index,        \* the Milvus collection: the entries added, in insertion order
    ingest,       \* how the last add_file or process_directory ended: [op, outcome]
    rag_call      \* the last search_documents or create_rag_prompt call

ragVars == <<index, ingest, rag_call>>

VARIABLES
    \* ---- user and session management (src/mongo/db.py)
    users,        \* the users collection: records [id, username, email]
    sessions,     \* the sessions collection: records [session_id, user_id]
    chat_history, \* the chat_history collection: records [id, user_id]
    dpc,          \* position of the MongoDBManager call in progress
    db_call,      \* the last MongoDBManager call: what was asked and returned
    nextOid       \* ObjectIds generated so far

dbVars == <<users, sessions, chat_history, dpc, db_call, nextOid>>

vars == <<histVars, streamVars, ragVars, dbVars>>

(***************************************************************************)
(* Helpers                                                                 *)
(***************************************************************************)
Range(s) == {s[i] : i \in 1..Len(s)}

\* list.pop(): the list without its last element
Pop(s) == SubSeq(s, 1, Len(s) - 1)

NoResult == [op |-> "none", outcome |-> "none"]

\* the documents of one session
SessionDocs(coll, s) == {d \in coll : d.session_id = s}

\* collection.find({"session_id": s}).sort("message_index", ASCENDING):
\* every order of the session's documents that ascends by message_index
\* (the order of documents with equal message_index is not specified)
SortedFind(coll, s) ==
    LET docs == SessionDocs(coll, s)
        n == Cardinality(docs)
    IN {f \in [1..n -> docs] :
            /\ \A i, j \in 1..n : i # j => f[i] # f[j]
            /\ \A i \in 1..n : \A j \in 1..n :
                   i < j => f[i].message_index <= f[j].message_index}

\* messages_from_dict over the documents found
MessagesFromDocs(f) == [i \in 1..Len(f) |-> f[i].data]

\* get_message_count
get_message_count(h) == Len(messages[h])

\* get_recent_messages(count): self._messages[-count:] if self._messages
\* else [].  The slice starts at -count: a negative start counts from the end
\* and is clamped to the start of the list, a start of 0 is the start of the
\* list, a positive start is clamped to its end.
get_recent_messages(cache, count) ==
    LET len == Len(cache)
        start == IF -count < 0
                 THEN (IF len - count < 0 THEN 0 ELSE len - count)
                 ELSE (IF -count > len THEN len ELSE -count)
    IN IF cache = <<>> THEN <<>> ELSE SubSeq(cache, start + 1, len)

(***************************************************************************)
(* Initial state: an empty collection, no instance constructed.            *)
(***************************************************************************)
HistInit ==
    /\ collection = {}
    /\ session_id = [h \in Instances |-> NoSession]
    /\ messages = [h \in Instances |-> <<>>]
    /\ pc = [h \in Instances |-> "none"]
    /\ arg = [h \in Instances |-> 0]
    /\ result = [h \in Instances |-> NoResult]
    /\ nextId = 0
    /\ appendLog = [s \in Sessions |-> <<>>]
    /\ written = {}
    /\ before = [h \in Instances |-> <<>>]

(***************************************************************************)
(* MongoDBChatMessageHistory                                               *)
(***************************************************************************)
\* _load_messages, the read succeeds: the cache becomes the messages found
LoadMessagesOk(h, s) ==
    \E f \in SortedFind(collection, s) :
        messages' = [messages EXCEPT ![h] = MessagesFromDocs(f)]

\* _load_messages, the read raises: the exception is printed and swallowed,
\* the cache is set to the empty list
LoadMessagesFail(h, s) ==
    messages' = [messages EXCEPT ![h] = <<>>]

\* __init__(session_id): the cache starts empty and is loaded from the collection
Construct(h, s) ==
    /\ pc[h] = "none"
    /\ session_id' = [session_id EXCEPT ![h] = s]
    /\ \/ /\ LoadMessagesOk(h, s)
          /\ result' = [result EXCEPT ![h] = [op |-> "load", outcome |-> "returned"]]
       \/ /\ LoadMessagesFail(h, s)
          /\ result' = [result EXCEPT ![h] = [op |-> "load", outcome |-> "swallowed"]]
    /\ pc' = [pc EXCEPT ![h] = "idle"]
    /\ arg' = [arg EXCEPT ![h] = 0]
    /\ before' = [before EXCEPT ![h] = <<>>]
    /\ UNCHANGED <<collection, nextId, appendLog, written>>

\* add_message, line 104: the message is appended to the cache
AddMessageAppend(h) ==
    /\ pc[h] = "idle"
    /\ nextId' = nextId + 1
    /\ arg' = [arg EXCEPT ![h] = nextId + 1]
    /\ before' = [before EXCEPT ![h] = messages[h]]
    /\ messages' = [messages EXCEPT ![h] = Append(messages[h], nextId + 1)]
    /\ pc' = [pc EXCEPT ![h] = "add_message"]
    /\ result' = [result EXCEPT ![h] = NoResult]
    /\ UNCHANGED <<collection, session_id, appendLog, written>>

\* add_message, line 109: the index is taken from the length of the cache,
\* to which the message has been appended already
MessageIndex(cache) == Len(cache) - 1

\* add_message, lines 111-119: the document to insert
Document(s, cache, message) ==
    [session_id |-> s,
     message_index |-> MessageIndex(cache),
     data |-> message]

\* add_message, line 121: insert_one succeeds and add_message returns
AddMessageInsert(h) ==
    /\ pc[h] = "add_message"
    /\ collection' = collection \cup {Document(session_id[h], messages[h], arg[h])}
    /\ appendLog' = [appendLog EXCEPT
                        ![session_id[h]] = Append(appendLog[session_id[h]], arg[h])]
    /\ written' = written \cup {arg[h]}
    /\ pc' = [pc EXCEPT ![h] = "idle"]
    /\ result' = [result EXCEPT ![h] = [op |-> "add_message", outcome |-> "returned"]]
    /\ UNCHANGED <<session_id, messages, arg, nextId, before>>

\* add_message whose except branch raises without removing the message
AddMessageFail_NoPop(h) ==
    /\ pc[h] = "add_message"
    /\ pc' = [pc EXCEPT ![h] = "idle"]
    /\ result' = [result EXCEPT ![h] = [op |-> "add_message", outcome |-> "raised"]]
    /\ UNCHANGED <<collection, session_id, messages, arg, nextId,
                   appendLog, written, before>>

\* add_message, lines 123-126: insert_one raises; the message is removed from
\* the cache again and an exception is raised to the caller
AddMessageFail(h) ==
    /\ pc[h] = "add_message"
    /\ messages' = [messages EXCEPT ![h] = Pop(messages[h])]
    /\ pc' = [pc EXCEPT ![h] = "idle"]
    /\ result' = [result EXCEPT ![h] = [op |-> "add_message", outcome |-> "raised"]]
    /\ UNCHANGED <<collection, session_id, arg, nextId, appendLog,
                   written, before>>

\* clear, line 147: delete_many succeeds
ClearDelete(h) ==
    /\ pc[h] = "idle"
    /\ collection' = collection \ SessionDocs(collection, session_id[h])
    /\ appendLog' = [appendLog EXCEPT ![session_id[h]] = <<>>]
    /\ pc' = [pc EXCEPT ![h] = "clear"]
    /\ result' = [result EXCEPT ![h] = NoResult]
    /\ arg' = [arg EXCEPT ![h] = 0]
    /\ before' = [before EXCEPT ![h] = messages[h]]
    /\ UNCHANGED <<session_id, messages, nextId, written>>

\* clear, line 149: the cache is emptied and clear returns
ClearCache(h) ==
    /\ pc[h] = "clear"
    /\ messages' = [messages EXCEPT ![h] = <<>>]
    /\ pc' = [pc EXCEPT ![h] = "idle"]
    /\ result' = [result EXCEPT ![h] = [op |-> "clear", outcome |-> "returned"]]
    /\ UNCHANGED <<collection, session_id, arg, nextId, appendLog,
                   written, before>>

\* clear whose except branch empties the cache before it raises
ClearFail_EmptiesCache(h) ==
    /\ pc[h] = "idle"
    /\ result' = [result EXCEPT ![h] = [op |-> "clear", outcome |-> "raised"]]
    /\ messages' = [messages EXCEPT ![h] = <<>>]
    /\ arg' = [arg EXCEPT ![h] = 0]
    /\ before' = [before EXCEPT ![h] = messages[h]]
    /\ UNCHANGED <<collection, session_id, pc, nextId, appendLog, written>>

\* clear, lines 150-151: delete_many raises and clear raises to the caller
ClearFail(h) ==
    /\ pc[h] = "idle"
    /\ result' = [result EXCEPT ![h] = [op |-> "clear", outcome |-> "raised"]]
    /\ arg' = [arg EXCEPT ![h] = 0]
    /\ before' = [before EXCEPT ![h] = messages[h]]
    /\ UNCHANGED <<collection, session_id, messages, pc, nextId, appendLog, written>>

\* __exit__: the instance is given up (its client is closed)
Exit(h) ==
    /\ pc[h] = "idle"
    /\ pc' = [pc EXCEPT ![h] = "none"]
    /\ session_id' = [session_id EXCEPT ![h] = NoSession]
    /\ messages' = [messages EXCEPT ![h] = <<>>]
    /\ arg' = [arg EXCEPT ![h] = 0]
    /\ result' = [result EXCEPT ![h] = NoResult]
    /\ before' = [before EXCEPT ![h] = <<>>]
    /\ UNCHANGED <<collection, nextId, appendLog, written>>

(***************************************************************************)
(* The streaming endpoint (src/main.py) and the chain (src/llm/model.py)   *)
(***************************************************************************)
\* model.py line 75: every turn uses the one fixed session
SESSION_ID == "s1"

\* the parts of the prompt of the chain (model.py lines 40-46): the system
\* prompt, the history of the session and the question
PromptVariables == {"system", "history", "question"}

\* The items put on the queue.  The JSON text carries "type" and "content";
\* "turn" is a ghost tag naming the turn whose task put the item, and the end
\* signal None is the item of type "None".
TokenEvent(t, k) == [type |-> "token", turn |-> t, content |-> k]
DoneEvent(t) == [type |-> "done", turn |-> t, content |-> 0]
ErrorEvent(t) == [type |-> "error", turn |-> t, content |-> 0]
EndSignal(t) == [type |-> "None", turn |-> t, content |-> 0]

IsTerminal(e) == e.type \in {"done", "error"}

\* the token events of a sequence of items, in order
RECURSIVE Tokens(_)
Tokens(s) ==
    IF s = <<>> THEN <<>>
    ELSE IF s[1].type = "token" THEN <<s[1]>> \o Tokens(Tail(s))
         ELSE Tokens(Tail(s))

\* the terminal events of a sequence of items, in order
RECURSIVE Terminals(_)
Terminals(s) ==
    IF s = <<>> THEN <<>>
    ELSE IF IsTerminal(s[1]) THEN <<s[1]>> \o Terminals(Tail(s))
         ELSE Terminals(Tail(s))

\* the number of fragments emitted so far, by all turns
TokensEmitted ==
    Cardinality({e \in UNION {Range(put[t]) : t \in Turns} : e.type = "token"})

StreamInit ==
    /\ queue = <<>>
    /\ gen = [t \in Turns |-> "new"]
    /\ task = [t \in Turns |-> "none"]
    /\ yielded = [t \in Turns |-> <<>>]
    /\ put = [t \in Turns |-> <<>>]
    /\ input_text = [t \in Turns |-> NoInput]

\* asyncio.Queue() of line 29 is constructed with no maxsize argument, which
\* is maxsize 0: no limit on the number of items
maxsize == 0

\* Queue.full(): a queue of maxsize 0 is never full
Full == maxsize > 0 /\ Len(queue) >= maxsize

\* await queue.put(item) for each item in turn: put suspends while the queue
\* is full; the queue is unbounded, so no put suspends and the puts of one
\* callback happen in one step
QueuePut(t, items) ==
    /\ ~Full
    /\ queue' = queue \o items
    /\ put' = [put EXCEPT ![t] = put[t] \o items]

\* chat (lines 85-97) passes request.input to generate_response; up to its
\* loop (lines 36-72) the callback is created and run_model is scheduled as a
\* task with asyncio.create_task.  The input text is not inspected.
StartTurn(t) ==
    /\ gen[t] = "new"
    /\ \E text \in Inputs : input_text' = [input_text EXCEPT ![t] = text]
    /\ gen' = [gen EXCEPT ![t] = "loop"]
    /\ task' = [task EXCEPT ![t] = "created"]
    /\ UNCHANGED <<queue, yielded, put, histVars, ragVars, dbVars>>

\* run_model starts ainvoke: RunnableWithMessageHistory calls get_chat_history
\* (model.py lines 54-63), which constructs the turn's history instance and
\* loads the session; the prompt is built and the model is called
InvokeStart(t) ==
    /\ task[t] = "created"
    /\ Construct(t, SESSION_ID)
    /\ task' = [task EXCEPT ![t] = "generating"]
    /\ UNCHANGED <<queue, gen, yielded, put, input_text, ragVars, dbVars>>

\* ainvoke raises before the model is called (the MongoDB index creation of
\* __init__, line 56, is outside any try): run_model's except branch
\* (main.py lines 64-66) puts an error event and the end signal
InvokeRaises(t) ==
    /\ task[t] = "created"
    /\ QueuePut(t, <<ErrorEvent(t), EndSignal(t)>>)
    /\ task' = [task EXCEPT ![t] = "finished"]
    /\ UNCHANGED <<gen, yielded, histVars, input_text, ragVars, dbVars>>

\* on_llm_new_token (lines 40-41): one fragment, one token event
OnLlmNewToken(t) ==
    /\ task[t] = "generating"
    /\ TokensEmitted < MaxTokens
    /\ QueuePut(t, <<TokenEvent(t, Len(Tokens(put[t])) + 1)>>)
    /\ UNCHANGED <<gen, task, yielded, histVars, input_text, ragVars, dbVars>>

\* on_llm_end (lines 43-45): the model has completed; the chain's on_end
\* listener then saves the exchange
OnLlmEnd(t) ==
    /\ task[t] = "generating"
    /\ QueuePut(t, <<DoneEvent(t), EndSignal(t)>>)
    /\ task' = [task EXCEPT ![t] = "saving"]
    /\ UNCHANGED <<gen, yielded, histVars, input_text, ragVars, dbVars>>

\* on_llm_error with the chain going on to save the exchange, as it does after
\* a completed model
OnLlmError_Saves(t) ==
    /\ task[t] = "generating"
    /\ QueuePut(t, <<ErrorEvent(t), EndSignal(t)>>)
    /\ task' = [task EXCEPT ![t] = "saving"]
    /\ UNCHANGED <<gen, yielded, histVars, input_text, ragVars, dbVars>>

\* on_llm_error (lines 47-49): the model has failed; the exception goes on to
\* propagate out of ainvoke
OnLlmError(t) ==
    /\ task[t] = "generating"
    /\ QueuePut(t, <<ErrorEvent(t), EndSignal(t)>>)
    /\ task' = [task EXCEPT ![t] = "llm_failed"]
    /\ UNCHANGED <<gen, yielded, histVars, input_text, ragVars, dbVars>>

\* run_model's except branch (lines 64-66) for the exception of a failed model
RunModelExcept(t) ==
    /\ task[t] = "llm_failed"
    /\ QueuePut(t, <<ErrorEvent(t), EndSignal(t)>>)
    /\ task' = [task EXCEPT ![t] = "finished"]
    /\ UNCHANGED <<gen, yielded, histVars, input_text, ragVars, dbVars>>

\* The chain's on_end listener saves the exchange with
\* add_messages([human, ai]) on the turn's history instance: add_message
\* (chat_history.py lines 101-126) for the question, then for the answer, with
\* no suspension in between.  Both inserts succeed.
SaveExchange(t) ==
    LET human == nextId + 1
        ai == nextId + 2
        cache1 == Append(messages[t], human)
        cache2 == Append(cache1, ai)
    IN /\ task[t] = "saving"
       /\ pc[t] = "idle"
       /\ nextId' = nextId + 2
       /\ messages' = [messages EXCEPT ![t] = cache2]
       /\ collection' = collection \cup {Document(session_id[t], cache1, human),
                                         Document(session_id[t], cache2, ai)}
       /\ appendLog' = [appendLog EXCEPT
                           ![session_id[t]] = appendLog[session_id[t]] \o <<human, ai>>]
       /\ written' = written \cup {human, ai}
       /\ arg' = [arg EXCEPT ![t] = ai]
       /\ before' = [before EXCEPT ![t] = cache1]
       /\ result' = [result EXCEPT ![t] = [op |-> "add_message", outcome |-> "returned"]]
       /\ task' = [task EXCEPT ![t] = "finished"]
       /\ UNCHANGED <<session_id, pc, queue, gen, yielded, put, input_text, ragVars, dbVars>>

\* The insert of the question raises: add_message removes it from the cache
\* and raises, add_messages stops there.  The exception is raised inside the
\* listener, which logs it, and ainvoke returns.
SaveHumanFails(t) ==
    LET human == nextId + 1
        cache1 == Append(messages[t], human)
    IN /\ task[t] = "saving"
       /\ pc[t] = "idle"
       /\ nextId' = nextId + 1
       /\ messages' = [messages EXCEPT ![t] = Pop(cache1)]
       /\ arg' = [arg EXCEPT ![t] = human]
       /\ before' = [before EXCEPT ![t] = messages[t]]
       /\ result' = [result EXCEPT ![t] = [op |-> "add_message", outcome |-> "raised"]]
       /\ task' = [task EXCEPT ![t] = "finished"]
       /\ UNCHANGED <<collection, session_id, pc, appendLog, written,
                      queue, gen, yielded, put, input_text, ragVars, dbVars>>

\* The insert of the question succeeds and the insert of the answer raises.
SaveAiFails(t) ==
    LET human == nextId + 1
        ai == nextId + 2
        cache1 == Append(messages[t], human)
        cache2 == Append(cache1, ai)
    IN /\ task[t] = "saving"
       /\ pc[t] = "idle"
       /\ nextId' = nextId + 2
       /\ messages' = [messages EXCEPT ![t] = Pop(cache2)]
       /\ collection' = collection \cup {Document(session_id[t], cache1, human)}
       /\ appendLog' = [appendLog EXCEPT
                           ![session_id[t]] = Append(appendLog[session_id[t]], human)]
       /\ written' = written \cup {human}
       /\ arg' = [arg EXCEPT ![t] = ai]
       /\ before' = [before EXCEPT ![t] = cache1]
       /\ result' = [result EXCEPT ![t] = [op |-> "add_message", outcome |-> "raised"]]
       /\ task' = [task EXCEPT ![t] = "finished"]
       /\ UNCHANGED <<session_id, pc, queue, gen, yielded, put, input_text, ragVars, dbVars>>

\* the loop of generate_response (lines 72-76): one queue.get; the end signal
\* leaves the loop, any other item is yielded to the client
QueueGet(t) ==
    /\ gen[t] = "loop"
    /\ queue # <<>>
    /\ queue' = Tail(queue)
    /\ IF Head(queue).type = "None"
       THEN /\ gen' = [gen EXCEPT ![t] = "await_task"]
            /\ UNCHANGED yielded
       ELSE /\ yielded' = [yielded EXCEPT ![t] = Append(yielded[t], Head(queue))]
            /\ UNCHANGED gen
    /\ UNCHANGED <<task, put, histVars, input_text, ragVars, dbVars>>

\* await task (line 79): generate_response ends when run_model has finished
AwaitTask(t) ==
    /\ gen[t] = "await_task"
    /\ task[t] = "finished"
    /\ gen' = [gen EXCEPT ![t] = "ended"]
    /\ UNCHANGED <<queue, task, yielded, put, histVars, input_text, ragVars, dbVars>>

\* The client disconnects while generate_response is in its loop: the
\* generator is cancelled at its await or closed at its yield (lines 72-76).
\* CancelledError and GeneratorExit are not Exceptions, so the handler of
\* lines 81-82 does not run; nothing cancels the task created on line 69 and
\* nothing removes items from the queue.
Disconnect(t) ==
    /\ gen[t] = "loop"
    /\ gen' = [gen EXCEPT ![t] = "cancelled"]
    /\ UNCHANGED <<queue, task, yielded, put, histVars, input_text, ragVars, dbVars>>

(***************************************************************************)
(* Retrieval: RAGSystem (src/rag/rag_system.py) and RAGIntegration         *)
(* (src/llm/rag_integration.py)                                            *)
(***************************************************************************)
\* the files that exist; the text of a file is the sequence of its pieces,
\* a piece being what the text splitter makes one chunk of
Files == {"a.txt", "b.txt"}
Pieces(f) == IF f = "a.txt" THEN <<1>> ELSE <<1, 2>>

\* loader.load() on a file, with metadata["source"] set to its path (add_file
\* line 77; DirectoryLoader's loaders set it themselves): the whole text
LoadedDocument(f) ==
    [page_content |-> Pieces(f), metadata |-> [source |-> f, split |-> FALSE]]

\* one chunk RecursiveCharacterTextSplitter makes of a document: a piece of
\* its text with the metadata of the document; split stands for the
\* start_index the splitter adds to the metadata of what it produces
Chunk(doc, i) ==
    [page_content |-> <<doc.page_content[i]>>,
     metadata |-> [source |-> doc.metadata.source, split |-> TRUE]]

\* text_splitter.split_documents (process_directory, lines 148-153): the
\* chunks of every document, in the order of the documents
RECURSIVE split_documents(_)
split_documents(documents) ==
    IF documents = <<>> THEN <<>>
    ELSE [i \in 1..Len(Head(documents).page_content) |-> Chunk(Head(documents), i)]
         \o split_documents(Tail(documents))

\* the orders in which a directory's files can be loaded
Loads(dir) ==
    {docs \in UNION {[1..n -> dir] : n \in 0..Cardinality(dir)} :
        /\ Len(docs) = Cardinality(dir)
        /\ \A i, j \in 1..Len(docs) : i # j => docs[i] # docs[j]}

NoPrompt == [context |-> <<>>, question |-> ""]
NoCall ==
    [op |-> "none", query |-> "", k |-> 0, reachable |-> TRUE, results |-> <<>>,
     documents |-> <<>>, prompt |-> NoPrompt, outcome |-> "none"]

RagInit ==
    /\ index = <<>>
    /\ ingest = [op |-> "none", outcome |-> "none"]
    /\ rag_call = NoCall

\* add_file (lines 48-85): the file is loaded and the loaded documents are
\* added to the vector store as they are
AddFile(f) ==
    /\ Len(index) < MaxIndexed
    /\ index' = Append(index, LoadedDocument(f))
    /\ ingest' = [op |-> "add_file", outcome |-> "returned"]
    /\ UNCHANGED <<rag_call, histVars, streamVars, dbVars>>

\* add_file raises: the file does not exist (line 51), or loading it or
\* adding to the vector store raises and is raised again (lines 83-85)
AddFileRaises ==
    /\ ingest' = [op |-> "add_file", outcome |-> "raised"]
    /\ UNCHANGED <<index, rag_call, histVars, streamVars, dbVars>>

\* process_directory (lines 87-159) on a directory holding the files dir:
\* nothing is done when no document is loaded; otherwise the documents are
\* split and the chunks are added to the vector store
ProcessDirectory(dir) ==
    /\ \E docs \in Loads(dir) :
           LET all_documents == [i \in 1..Len(docs) |-> LoadedDocument(docs[i])]
               chunks == split_documents(all_documents)
           IN /\ Len(index) + Len(chunks) <= MaxIndexed
              /\ index' = index \o chunks
    /\ ingest' = [op |-> "process_directory", outcome |-> "returned"]
    /\ UNCHANGED <<rag_call, histVars, streamVars, dbVars>>

\* process_directory raises: the path is missing or no directory (lines
\* 94-98), or add_documents raises (line 157 is in no try)
ProcessDirectoryRaises ==
    /\ ingest' = [op |-> "process_directory", outcome |-> "raised"]
    /\ UNCHANGED <<index, rag_call, histVars, streamVars, dbVars>>

\* vector_store.similarity_search(query, k=k) on a reachable index: the k
\* nearest entries, or all of them when there are fewer; which entries are
\* nearest, and in what order, is the embedding's matter
SimilaritySearch(k) ==
    LET n == IF k < Len(index) THEN k ELSE Len(index)
    IN {[i \in 1..n |-> index[pos[i]]] :
            pos \in {p \in [1..n -> 1..Len(index)] :
                        \A i, j \in 1..n : i # j => p[i] # p[j]}}

\* RAGSystem.search (lines 161-169): what the vector store found, or, when
\* the vector store raises, the empty list after the exception is printed
search(reachable, found) == IF reachable THEN found ELSE <<>>

\* search_documents (lines 36-45): one dict for every document found
search_documents(results) ==
    [i \in 1..Len(results) |->
        [content |-> results[i].page_content,
         metadata |-> results[i].metadata,
         source |-> results[i].metadata.source]]

\* a block of the context text: the fixed text of line 61, or the three
\* lines of lines 66-68 with the number, the content and the source
NoDocumentsBlock ==
    [kind |-> "no_documents", label |-> 0, content |-> <<>>, source |-> ""]
DocumentBlock(i, doc) ==
    [kind |-> "document", label |-> i, content |-> doc.content, source |-> doc.source]

\* format_context_for_prompt that counts the documents from 0
format_context_for_prompt_FromZero(documents) ==
    IF documents = <<>>
    THEN <<NoDocumentsBlock>>
    ELSE [i \in 1..Len(documents) |-> DocumentBlock(i - 1, documents[i])]

\* format_context_for_prompt that joins the blocks of an empty list
format_context_for_prompt_NoMarker(documents) ==
    [i \in 1..Len(documents) |-> DocumentBlock(i, documents[i])]

\* format_context_for_prompt (lines 50-71): the context text as the sequence
\* of the blocks that are joined
format_context_for_prompt(documents) ==
    IF documents = <<>>
    THEN <<NoDocumentsBlock>>
    ELSE [i \in 1..Len(documents) |-> DocumentBlock(i, documents[i])]

\* the prompt text of create_rag_prompt (lines 91-96): fixed instructions
\* around the context and the question
RagPrompt(context, query) == [context |-> context, question |-> query]

\* RAGIntegration.search_documents(query, k) called on its own
SearchDocuments(query, k) ==
    /\ \E reachable \in BOOLEAN : \E found \in SimilaritySearch(k) :
           LET results == search(reachable, found)
           IN rag_call' = [op |-> "search_documents", query |-> query, k |-> k,
                           reachable |-> reachable, results |-> results,
                           documents |-> search_documents(results),
                           prompt |-> NoPrompt, outcome |-> "returned"]
    /\ UNCHANGED <<index, ingest, histVars, streamVars, dbVars>>

\* create_rag_prompt(query, k) (lines 73-98): search_documents, then
\* format_context_for_prompt, then the prompt text
CreateRagPrompt(query, k) ==
    /\ \E reachable \in BOOLEAN : \E found \in SimilaritySearch(k) :
           LET results == search(reachable, found)
               documents == search_documents(results)
               context == format_context_for_prompt(documents)
           IN rag_call' = [op |-> "create_rag_prompt", query |-> query, k |-> k,
                           reachable |-> reachable, results |-> results,
                           documents |-> documents,
                           prompt |-> RagPrompt(context, query),
                           outcome |-> "returned"]
    /\ UNCHANGED <<index, ingest, histVars, streamVars, dbVars>>

(***************************************************************************)
(* MongoDBManager (src/mongo/db.py)                                        *)
(***************************************************************************)
Usernames == {"ann", "bob"}
Emails == {"ann@x", "bob@x"}
\* the session_id values of session documents
SessionIds == {"x", "y"}
\* user ids callers pass: ObjectIds as strings, of users or of nothing
UserIds == 1..MaxOids

NoDbCall ==
    [op |-> "none", username |-> "", email |-> "", session_id |-> "",
     user_id |-> 0, existed |-> FALSE, returned |-> "none", oid |-> 0]

\* the collections are empty; _initialize_collections (lines 49-74) has
\* created the unique indexes on users.username, users.email and
\* sessions.session_id
DbInit ==
    /\ users = {}
    /\ sessions = {}
    /\ chat_history = {}
    /\ dpc = "idle"
    /\ db_call = NoDbCall
    /\ nextOid = 0

\* the unique indexes of the users collection reject the insert
DuplicateUser(username, email) ==
    \E u \in users : u.username = username \/ u.email = email

\* create_user with no unique index on the collection: the insert succeeds
\* whatever users exist
create_user_NoUniqueIndex(username, email) ==
    /\ dpc = "idle"
    /\ nextOid < MaxOids
    /\ users' = users \cup {[id |-> nextOid + 1, username |-> username, email |-> email]}
    /\ nextOid' = nextOid + 1
    /\ db_call' = [NoDbCall EXCEPT !.op = "create_user", !.username = username,
                                   !.email = email, !.returned = "id",
                                   !.oid = nextOid + 1]
    /\ UNCHANGED <<sessions, chat_history, dpc, histVars, streamVars, ragVars>>

\* create_user (lines 92-116): insert_one succeeds and the id is returned, or
\* it raises (DuplicateKeyError from a unique index, or any other exception)
\* and None is returned
create_user(username, email) ==
    /\ dpc = "idle"
    /\ \/ /\ ~DuplicateUser(username, email)
          /\ nextOid < MaxOids
          /\ users' = users \cup {[id |-> nextOid + 1, username |-> username,
                                   email |-> email]}
          /\ nextOid' = nextOid + 1
          /\ db_call' = [NoDbCall EXCEPT !.op = "create_user", !.username = username,
                                   !.email = email, !.returned = "id",
                                         !.oid = nextOid + 1]
       \/ /\ db_call' = [NoDbCall EXCEPT !.op = "create_user", !.username = username,
                                   !.email = email, !.returned = "None"]
          /\ UNCHANGED <<users, nextOid>>
    /\ UNCHANGED <<sessions, chat_history, dpc, histVars, streamVars, ragVars>>

\* create_session with no unique index on session_id
create_session_NoUniqueIndex(sid, user_id) ==
    /\ dpc = "idle"
    /\ nextOid < MaxOids
    /\ sessions' = sessions \cup {[session_id |-> sid, user_id |-> user_id]}
    /\ nextOid' = nextOid + 1
    /\ db_call' = [NoDbCall EXCEPT !.op = "create_session", !.session_id = sid, !.user_id = user_id,
                                   !.returned = "id", !.oid = nextOid + 1]
    /\ UNCHANGED <<users, chat_history, dpc, histVars, streamVars, ragVars>>

\* create_session (lines 331-350): insert_one succeeds and the id is
\* returned, or it raises (the unique index on session_id, or any other
\* exception) and None is returned
create_session(sid, user_id) ==
    /\ dpc = "idle"
    /\ \/ /\ \A s \in sessions : s.session_id # sid
          /\ nextOid < MaxOids
          /\ sessions' = sessions \cup {[session_id |-> sid, user_id |-> user_id]}
          /\ nextOid' = nextOid + 1
          /\ db_call' = [NoDbCall EXCEPT !.op = "create_session", !.session_id = sid,
                                         !.user_id = user_id,
                                         !.returned = "id", !.oid = nextOid + 1]
       \/ /\ db_call' = [NoDbCall EXCEPT !.op = "create_session", !.session_id = sid,
                                         !.user_id = user_id, !.returned = "None"]
          /\ UNCHANGED <<sessions, nextOid>>
    /\ UNCHANGED <<users, chat_history, dpc, histVars, streamVars, ragVars>>

\* add_chat_message (lines 209-226) with the user_id of the chat data
add_chat_message(user_id) ==
    /\ dpc = "idle"
    /\ \/ /\ nextOid < MaxOids
          /\ chat_history' = chat_history \cup {[id |-> nextOid + 1, user_id |-> user_id]}
          /\ nextOid' = nextOid + 1
          /\ db_call' = [NoDbCall EXCEPT !.op = "add_chat_message",
                                         !.user_id = user_id,
                                         !.returned = "id", !.oid = nextOid + 1]
       \/ /\ db_call' = [NoDbCall EXCEPT !.op = "add_chat_message",
                                         !.user_id = user_id, !.returned = "None"]
          /\ UNCHANGED <<chat_history, nextOid>>
    /\ UNCHANGED <<users, sessions, dpc, histVars, streamVars, ragVars>>

\* delete_user, lines 193-194 and 201-205: users.delete_one.  A user found
\* is removed and the call goes on to the cascade; with no such user, or
\* when delete_one raises, False is returned and nothing is deleted.
delete_user(user_id) ==
    /\ dpc = "idle"
    /\ LET found == {u \in users : u.id = user_id}
       IN \/ /\ found # {}
             /\ users' = users \ found
             /\ dpc' = "delete_chat_history"
             /\ db_call' = [NoDbCall EXCEPT !.op = "delete_user",
                                            !.user_id = user_id,
                                            !.existed = TRUE,
                                            !.returned = "pending"]
          \/ /\ db_call' = [NoDbCall EXCEPT !.op = "delete_user",
                                            !.user_id = user_id,
                                            !.existed = (found # {}),
                                            !.returned = "False"]
             /\ UNCHANGED <<users, dpc>>
    /\ UNCHANGED <<sessions, chat_history, nextOid, histVars, streamVars, ragVars>>

\* delete_user, line 198: chat_history.delete_many for the user
delete_user_chat_history ==
    /\ dpc = "delete_chat_history"
    /\ chat_history' = {c \in chat_history : c.user_id # db_call.user_id}
    /\ dpc' = "delete_sessions"
    /\ UNCHANGED <<users, sessions, db_call, nextOid, histVars, streamVars, ragVars>>

\* delete_user, lines 199 and 202: sessions.delete_many for the user, and
\* True is returned
delete_user_sessions ==
    /\ dpc = "delete_sessions"
    /\ sessions' = {s \in sessions : s.user_id # db_call.user_id}
    /\ dpc' = "idle"
    /\ db_call' = [db_call EXCEPT !.returned = "True"]
    /\ UNCHANGED <<users, chat_history, nextOid, histVars, streamVars, ragVars>>

\* delete_user, lines 203-205: one of the two delete_many calls raises; the
\* exception is logged and False is returned
delete_user_except ==
    /\ dpc \in {"delete_chat_history", "delete_sessions"}
    /\ dpc' = "idle"
    /\ db_call' = [db_call EXCEPT !.returned = "False"]
    /\ UNCHANGED <<users, sessions, chat_history, nextOid, histVars, streamVars, ragVars>>

(***************************************************************************)
(* Spec: the history store used directly through its methods               *)
(***************************************************************************)
Init == HistInit /\ StreamInit /\ RagInit /\ DbInit

\* a caller's steps on its own instance; no turn runs
UseConstruct(h, s) == Construct(h, s) /\ UNCHANGED <<streamVars, ragVars, dbVars>>
UseAddMessageAppend(h) ==
    nextId < MaxMessages /\ AddMessageAppend(h) /\ UNCHANGED <<streamVars, ragVars, dbVars>>
UseAddMessageInsert(h) == AddMessageInsert(h) /\ UNCHANGED <<streamVars, ragVars, dbVars>>
UseAddMessageFail(h) == AddMessageFail(h) /\ UNCHANGED <<streamVars, ragVars, dbVars>>
UseClearDelete(h) == ClearDelete(h) /\ UNCHANGED <<streamVars, ragVars, dbVars>>
UseClearCache(h) == ClearCache(h) /\ UNCHANGED <<streamVars, ragVars, dbVars>>
UseClearFail(h) == ClearFail(h) /\ UNCHANGED <<streamVars, ragVars, dbVars>>
UseExit(h) == Exit(h) /\ UNCHANGED <<streamVars, ragVars, dbVars>>

Next ==
    \E h \in Handles :
        \/ \E s \in Sessions : UseConstruct(h, s)
        \/ UseAddMessageAppend(h)
        \/ UseAddMessageInsert(h)
        \/ UseAddMessageFail(h)
        \/ UseClearDelete(h)
        \/ UseClearCache(h)
        \/ UseClearFail(h)
        \/ UseExit(h)

Spec == Init /\ [][Next]_vars

(***************************************************************************)
(* SpecStream: conversation turns of the /api/chat endpoint                *)
(***************************************************************************)
NextStream ==
    \E t \in Turns :
        \/ StartTurn(t)
        \/ InvokeStart(t)
        \/ InvokeRaises(t)
        \/ OnLlmNewToken(t)
        \/ OnLlmEnd(t)
        \/ OnLlmError(t)
        \/ RunModelExcept(t)
        \/ SaveExchange(t)
        \/ SaveHumanFails(t)
        \/ SaveAiFails(t)
        \/ QueueGet(t)
        \/ AwaitTask(t)
        \/ Disconnect(t)

SpecStream == Init /\ [][NextStream]_vars

(***************************************************************************)
(* SpecRag: ingestion into the vector index and retrieval from it          *)
(***************************************************************************)
NextRag ==
    \/ \E f \in Files : AddFile(f)
    \/ AddFileRaises
    \/ \E dir \in SUBSET Files : ProcessDirectory(dir)
    \/ ProcessDirectoryRaises
    \/ \E query \in Inputs : \E k \in 1..MaxK : SearchDocuments(query, k)
    \/ \E query \in Inputs : \E k \in 1..MaxK : CreateRagPrompt(query, k)

SpecRag == Init /\ [][NextRag]_vars

(***************************************************************************)
(* SpecDb: user, session and chat record management of MongoDBManager      *)
(***************************************************************************)
NextDb ==
    \/ \E username \in Usernames : \E email \in Emails : create_user(username, email)
    \/ \E sid \in SessionIds : \E user_id \in UserIds : create_session(sid, user_id)
    \/ \E user_id \in UserIds : add_chat_message(user_id)
    \/ \E user_id \in UserIds : delete_user(user_id)
    \/ delete_user_chat_history
    \/ delete_user_sessions
    \/ delete_user_except

SpecDb == Init /\ [][NextDb]_vars

(***************************************************************************)
(* Properties of the history store (checked under Spec)                    *)
(***************************************************************************)

\* C1: persistence before cache: in no state, the steps inside add_message
\* included, does a cache hold a message whose insert has not succeeded.
C1_CacheHoldsOnlyWritten ==
    \A h \in Instances : Range(messages[h]) \subseteq written

\* C2: when the insert of add_message fails, add_message raises, the cache and
\* get_message_count are what they were before the call, and the message is
\* neither persisted nor in any cache; add_message returns normally only when
\* the insert succeeded.
C2_FailedAppendLeavesNoTrace ==
    \A h \in Instances :
        (pc[h] = "idle" /\ result[h].op = "add_message") =>
            IF arg[h] \in written
            THEN result[h].outcome = "returned"
            ELSE /\ result[h].outcome = "raised"
                 /\ messages[h] = before[h]
                 /\ get_message_count(h) = Len(before[h])
                 /\ \A d \in collection : d.data # arg[h]
                 /\ \A g \in Instances : arg[h] \notin Range(messages[g])

\* C2 witness: an add_message on a non-empty cache has failed and raised
C2_Witness ==
    \E h \in Instances :
        /\ pc[h] = "idle"
        /\ result[h] = [op |-> "add_message", outcome |-> "raised"]
        /\ before[h] # <<>>
        /\ collection # {}

\* C3: a load of a session after N successful appends returns exactly the N
\* appended messages in the order in which they were appended.
C3_LoadReturnsAppendsInOrder ==
    [][\A h \in Instances :
          (pc[h] = "none" /\ pc'[h] = "idle" /\ result'[h].outcome = "returned")
              => messages'[h] = appendLog[session_id'[h]]]_vars

\* the message_index values of a session are 0..count-1, each held by one document
GaplessIndices(coll, s) ==
    LET docs == SessionDocs(coll, s)
    IN /\ {d.message_index : d \in docs} = 0..(Cardinality(docs) - 1)
       /\ \A d, e \in docs : d.message_index = e.message_index => d = e

\* C4: the persisted message_index values of every session are exactly
\* 0..count-1, without gap or duplicate.
C4_IndicesAreZeroToCount ==
    \A s \in Sessions : GaplessIndices(collection, s)

\* C6: the cache of every instance at rest mirrors the persisted log of its
\* session: its i-th message is the persisted message with index i-1.
C6_CacheMirrorsCollection ==
    \A h \in Instances :
        pc[h] = "idle" =>
            \A i \in 1..Len(messages[h]) :
                \E d \in SessionDocs(collection, session_id[h]) :
                    d.message_index = i - 1 /\ d.data = messages[h][i]

(***************************************************************************)
(* Properties of the turns (checked under SpecStream)                      *)
(***************************************************************************)

\* C5: two turns on the same session at the same time leave the persisted
\* indices without gap or duplicate: a turn that has loaded its history and
\* saves its exchange successfully keeps the indices of the session 0..count-1.
C5_ConcurrentTurnsKeepIndices ==
    [][\A t \in Turns :
          (/\ task[t] = "saving"
           /\ task'[t] = "finished"
           /\ result[t] = [op |-> "load", outcome |-> "returned"]
           /\ result'[t] = [op |-> "add_message", outcome |-> "returned"]
           /\ GaplessIndices(collection, SESSION_ID))
              => GaplessIndices(collection', SESSION_ID)]_vars

\* C7: every turn puts exactly one terminal event (done or error) on the
\* queue, and no event of the turn after it.
C7_OneTerminalEventPerTurn ==
    \A t \in Turns :
        /\ Len(Terminals(put[t])) <= 1
        /\ task[t] = "finished" => Len(Terminals(put[t])) = 1
        /\ \A i, j \in 1..Len(put[t]) :
               (i < j /\ IsTerminal(put[t][i])) => put[t][j].type = "None"

\* C8: the loop of generate_response never ends without having yielded a done
\* or an error event to its client.
C8_ConsumerEndsWithTerminalEvent ==
    \A t \in Turns :
        gen[t] \in {"await_task", "ended"} =>
            \E i \in 1..Len(yielded[t]) : IsTerminal(yielded[t][i])

\* C9: when a turn is over, the token events its client has received are
\* exactly the fragments its model emitted, each once and in emission order.
C9_TokensDeliveredInOrder ==
    \A t \in Turns :
        gen[t] = "ended" => Tokens(yielded[t]) = Tokens(put[t])

\* C10: every event the client of a turn receives was produced by that turn.
C10_TurnIsolation ==
    \A t \in Turns :
        \A i \in 1..Len(yielded[t]) : yielded[t][i].turn = t

\* C11: a done event is emitted only after the answer of the turn has been
\* appended to the history; when that append fails no done event is emitted.
C11_DoneFollowsPersistence ==
    \A t \in Turns :
        DoneEvent(t) \in Range(put[t]) =>
            /\ result[t] = [op |-> "add_message", outcome |-> "returned"]
            /\ arg[t] \in written

\* C12: once the consumer of a turn has disconnected after a token and before
\* any done or error event, the model invocation of the turn is cancelled:
\* the turn's task takes no further step, it produces no further event, and
\* its history instance persists nothing.
C12_CancellationStopsTurn ==
    [][\A t \in Turns :
          (/\ gen[t] = "cancelled"
           /\ Tokens(yielded[t]) # <<>>
           /\ Terminals(yielded[t]) = <<>>)
          => /\ task'[t] = task[t]
             /\ put'[t] = put[t]
             /\ messages'[t] = messages[t]]_vars

\* C13: when the model of a turn fails, an error event is emitted for the
\* turn, and a turn with an error event has called add_message for no
\* message: nothing is written to the history and no answer is persisted.
C13_ModelFailureWritesNothing ==
    \A t \in Turns :
        /\ task[t] = "llm_failed" => ErrorEvent(t) \in Range(put[t])
        /\ ErrorEvent(t) \in Range(put[t]) =>
               /\ result[t].op # "add_message"
               /\ arg[t] = 0
               /\ task[t] \in {"llm_failed", "finished"}

\* a model that failed after a fragment, its turn's task finished
C13_Witness ==
    \E t \in Turns :
        /\ task[t] = "finished"
        /\ Tokens(put[t]) # <<>>
        /\ ErrorEvent(t) \in Range(put[t])

\* C14: the queue between the callbacks and the consumer is bounded: whenever
\* events are buffered the queue has a positive capacity and holds at most
\* that many events.
C14_QueueIsBounded ==
    queue # <<>> => (maxsize > 0 /\ Len(queue) <= maxsize)

\* C15: when clear returns, the count of the instance is 0 and, no message
\* having been inserted since, a load of the session finds nothing; and the
\* first message inserted into a session after a clear of it has returned is
\* stored at index 0.
C15_ClearThenLoadAndAppend ==
    [][\A h \in Instances :
          /\ (pc[h] = "clear" /\ pc'[h] = "idle") =>
                 /\ Len(messages'[h]) = 0
                 /\ appendLog'[session_id[h]] = <<>> =>
                        SortedFind(collection', session_id[h]) = {<<>>}
          /\ (/\ pc[h] = "add_message"
              /\ result'[h] = [op |-> "add_message", outcome |-> "returned"]
              /\ appendLog[session_id[h]] = <<>>
              /\ \E c \in Instances :
                     /\ session_id[c] = session_id[h]
                     /\ result[c] = [op |-> "clear", outcome |-> "returned"])
             => \A d \in collection' \ collection : d.message_index = 0]_vars

\* C16: clear is atomic for readers of the session: in no state inside a
\* clear is one of the cache and the persisted documents of the session
\* emptied and the other not.
C16_ClearIsAtomic ==
    \A h \in Instances :
        pc[h] = "clear" =>
            (messages[h] = <<>> <=> SessionDocs(collection, session_id[h]) = {})

\* C18: a load whose read of the collection fails is reported to the caller:
\* no instance is handed to its caller, ready for use with an empty cache,
\* after a load that swallowed the failure of its read.
C18_LoadFailureIsSurfaced ==
    \A h \in Instances :
        ~ /\ pc[h] = "idle"
          /\ result[h] = [op |-> "load", outcome |-> "swallowed"]
          /\ messages[h] = <<>>

\* C17: get_recent_messages(n) on an instance at rest returns the last n
\* messages of its cache, in order, when the cache holds at least n messages,
\* and the empty sequence when it holds fewer than n.
C17_RecentReturnsLastOrEmpty ==
    \A h \in Instances :
        pc[h] = "idle" =>
            \A n \in 0..MaxCount :
                LET size == Len(messages[h])
                    recent == get_recent_messages(messages[h], n)
                IN /\ size >= n => recent = SubSeq(messages[h], size - n + 1, size)
                   /\ size < n => recent = <<>>

\* C19: a turn whose input text is empty is rejected before any side effect:
\* its history is not read or written, its model is not invoked and its task
\* puts nothing on the queue.
C19_EmptyInputRejected ==
    \A t \in Turns :
        input_text[t] = "" =>
            /\ pc[t] = "none"
            /\ task[t] \in {"none", "created"}
            /\ put[t] = <<>>

\* the contents of a sequence of events, in order
Contents(s) == [i \in 1..Len(s) |-> s[i].content]

\* the text a turn's client has been streamed: the contents of the token
\* events yielded to it
StreamedText(t) == Contents(Tokens(yielded[t]))

\* the text of the answer the chain saves for a turn: the fragments its model
\* has emitted, which are the token events its callback has put
AnswerText(t) == Contents(Tokens(put[t]))

\* C20: on a turn that completes normally (generate_response has ended and
\* the exchange has been saved) the token contents delivered to the client,
\* concatenated in order, are the content of the persisted answer.
C20_StreamedTextIsPersistedText ==
    \A t \in Turns :
        (/\ gen[t] = "ended"
         /\ result[t] = [op |-> "add_message", outcome |-> "returned"]
         /\ arg[t] \in written)
        => StreamedText(t) = AnswerText(t)

\* C27: whenever a turn has ended with its task finished and no other turn is
\* in flight, the shared queue is empty: no event and no end signal is left
\* for a following turn.
C27_QueueDrainedAtEndOfTurn ==
    (/\ \E t \in Turns : gen[t] = "ended" /\ task[t] = "finished"
     /\ \A t \in Turns : \/ gen[t] = "new" /\ task[t] = "none"
                         \/ gen[t] = "ended" /\ task[t] = "finished")
    => queue = <<>>

\* C28: get_recent_messages(count) on an instance at rest returns, for every
\* count >= 0, exactly the last min(count, size) messages of the cache in
\* order: never more than count, and the empty list for count = 0.
C28_RecentReturnsAtMostCount ==
    \A h \in Instances :
        pc[h] = "idle" =>
            \A count \in 0..MaxCount :
                LET size == Len(messages[h])
                    k == IF count < size THEN count ELSE size
                    recent == get_recent_messages(messages[h], count)
                IN /\ Len(recent) <= count
                   /\ recent = SubSeq(messages[h], size - k + 1, size)

\* C29: a clear whose delete fails raises to its caller and leaves the cache
\* of the instance and the collection as they were before the call.
C29_FailedClearChangesNothing ==
    [][\A h \in Instances :
          (/\ result[h] # [op |-> "clear", outcome |-> "raised"]
           /\ result'[h] = [op |-> "clear", outcome |-> "raised"])
          => /\ messages'[h] = messages[h]
             /\ collection' = collection
             /\ pc'[h] = "idle"]_vars

\* a clear has raised on an instance that holds messages which are persisted
C29_Witness ==
    \E h \in Instances :
        /\ result[h] = [op |-> "clear", outcome |-> "raised"]
        /\ messages[h] # <<>>
        /\ messages[h] = before[h]
        /\ SessionDocs(collection, session_id[h]) # {}

(***************************************************************************)
(* Properties of retrieval (checked under SpecRag and SpecStream)          *)
(***************************************************************************)

\* C21: a search_documents or create_rag_prompt call made while the vector
\* index cannot be reached does not raise: it returns, with no documents, and
\* the prompt of create_rag_prompt carries the question and, as its context,
\* the fixed no-documents text.
C21_RetrievalFailureAbsorbed ==
    ~rag_call.reachable =>
        /\ rag_call.outcome = "returned"
        /\ rag_call.documents = <<>>
        /\ rag_call.op = "create_rag_prompt" =>
               rag_call.prompt = RagPrompt(<<NoDocumentsBlock>>, rag_call.query)

\* create_rag_prompt has been called on an index that holds entries and
\* cannot be reached
C21_Witness ==
    /\ rag_call.op = "create_rag_prompt"
    /\ ~rag_call.reachable
    /\ index # <<>>

\* C22: a search made while the vector index cannot be reached fails with an
\* error, so that its caller can tell it from a search that found nothing.
C22_UnreachableIndexRaises ==
    (rag_call.op # "none" /\ ~rag_call.reachable) =>
        rag_call.outcome = "raised"

\* C23: the context of a prompt renders every document found exactly once,
\* numbered 1..n in the order found, each with its content and source; for
\* no documents it is the fixed no-documents text and never empty.
C23_FormatNumbersEveryDocument ==
    rag_call.op = "create_rag_prompt" =>
        LET documents == rag_call.documents
            context == rag_call.prompt.context
        IN /\ context # <<>>
           /\ documents = <<>> => context = <<NoDocumentsBlock>>
           /\ documents # <<>> =>
                  /\ Len(context) = Len(documents)
                  /\ \A i \in 1..Len(documents) :
                         /\ context[i].kind = "document"
                         /\ context[i].label = i
                         /\ context[i].content = documents[i].content
                         /\ context[i].source = documents[i].source

\* a prompt made of two documents of different sources
C23_Witness ==
    /\ rag_call.op = "create_rag_prompt"
    /\ Len(rag_call.documents) = 2
    /\ rag_call.documents[1].source # rag_call.documents[2].source

\* C24: before the model of a turn is invoked, the retriever has been called
\* with the turn's question, and the model input has a part for the
\* retrieval context next to system prompt, history and question.
C24_RetrievalBeforeGeneration ==
    \A t \in Turns :
        task[t] \notin {"none", "created"} =>
            /\ rag_call.op # "none"
            /\ rag_call.query = input_text[t]
            /\ "context" \in PromptVariables

\* C26: every entry of the vector index has been produced by the text
\* splitter.
C26_OnlyChunksIndexed ==
    \A i \in 1..Len(index) : index[i].metadata.split

(***************************************************************************)
(* Properties of MongoDBManager (checked under SpecDb)                     *)
(***************************************************************************)

\* C25: a create_user call with a username or an email that an existing user
\* has returns no id and leaves the users collection as it was; a
\* create_session call with a session_id that an existing session has leaves
\* the sessions collection as it was.
C25_DuplicateKeysRejected ==
    [][/\ (/\ db_call'.op = "create_user"
           /\ DuplicateUser(db_call'.username, db_call'.email))
          => /\ db_call'.returned = "None"
             /\ users' = users
       /\ (/\ db_call'.op = "create_session"
           /\ \E s \in sessions : s.session_id = db_call'.session_id)
          => sessions' = sessions]_vars

\* create_user has returned None for an email that another user has, under
\* a username that no user has
C25_Witness ==
    /\ db_call.op = "create_user"
    /\ db_call.returned = "None"
    /\ \E u \in users : u.email = db_call.email
    /\ \A u \in users : u.username # db_call.username

\* C30: when delete_user has returned, it has returned True exactly when it
\* removed the user record; if it removed the user record, no chat_history
\* and no sessions record of that user is left; and for a user that did not
\* exist it has returned False.
C30_DeleteUserCascades ==
    (dpc = "idle" /\ db_call.op = "delete_user") =>
        LET removed == /\ db_call.existed
                       /\ \A u \in users : u.id # db_call.user_id
        IN /\ db_call.returned = "True" <=> removed
           /\ removed =>
                  /\ \A c \in chat_history : c.user_id # db_call.user_id
                  /\ \A s \in sessions : s.user_id # db_call.user_id
           /\ ~db_call.existed => db_call.returned = "False"

====
